---- MODULE Spec2Model ----
(***************************************************************************)
(* Model of package netx: the duplex copy engine of copy.go (BidiCopy and  *)
(* the two doCopy goroutines it starts) and the dial/resolve registry of   *)
(* netx.go.                                                                *)
(*                                                                         *)
(* Every statement of doCopy that touches something the other goroutine    *)
(* can see (the stop flag, a connection, a deadline, a channel) is one     *)
(* action; the purely local statements that follow it are part of the same *)
(* action.  A connection is the environment: a Read or a Write returns any *)
(* result the net.Conn contract allows.                                    *)
(***************************************************************************)
EXTENDS Integers, Sequences, FiniteSets, TLC

VARIABLES
    mainPc,          \* position of BidiCopy
    outErr, inErr,   \* BidiCopy's two return values
    stop,            \* the shared uint32 stop flag
    errCh,           \* errCh[c]: the buffered channel of copier c
    pc,              \* pc[c]: position of the doCopy goroutine c
    stopping,        \* stopping[c]: the iteration's snapshot of stop
    buf,             \* buf[c]: the working buffer of copier c
    nr, er,          \* nr[c], er[c]: the result of the iteration's Read
    ew,              \* ew[c]: the error of the iteration's Write
    err,             \* err[c]: doCopy's local err, sent by the deferred func
    rdl, wdl,        \* read / write deadline of each connection
    rd, wr,          \* bytes copier c has read / written in this iteration
    cause,           \* why copier c left its loop
    timeouts,        \* read timeouts copier c met while stop was already set
    idle,            \* idle[conn]: the peer of conn stays silent throughout
    armedDst,        \* armedDst[c]: copier c has run line 38
    sent,            \* sent[c]: how many values copier c has sent on its channel
    offered,         \* offered[c]: the arguments of the iteration's Writes
    dial, dialUDP, resolveTCPAddr, resolveUDPAddr,   \* netx.go's four slots
    lastCall         \* the last registry call and what it did

copyVars == <<mainPc, outErr, inErr, stop, errCh, pc, stopping, buf, nr, er,
              ew, err, rdl, wdl, rd, wr, cause, timeouts, idle,
              armedDst, sent, offered>>
regVars  == <<dial, dialUDP, resolveTCPAddr, resolveUDPAddr, lastCall>>
vars     == <<copyVars, regVars>>

----------------------------------------------------------------------------
(* Bounds *)

\* length of each caller-supplied buffer
BufLen == 2
\* the timeout counter saturates here
MaxTimeouts == 3

\* doCopy never looks at the bytes it moves, so a Read of n bytes is given
\* n distinct bytes: any byte lost, repeated or out of order then shows.
Bytes == 1..BufLen
Stream(n) == [i \in 1..n |-> i]
\* what a Read leaves in the part of the buffer it does not return: Read may
\* use all of the buffer as scratch space
Scratch == 0

----------------------------------------------------------------------------
(* The two directions *)

\* "outCopy" is  go doCopy(out, in, bufIn, ..., outErrCh, &stop)
\* "inCopy"  is  go doCopy(in, out, bufOut, ..., inErrCh, &stop)
Copiers == {"outCopy", "inCopy"}
Conns   == {"in", "out"}

Dst(c)   == IF c = "outCopy" THEN "out" ELSE "in"
Src(c)   == IF c = "outCopy" THEN "in" ELSE "out"
Other(c) == IF c = "outCopy" THEN "inCopy" ELSE "outCopy"

----------------------------------------------------------------------------
(* Errors.  An error is named by an identifier; ErrorMsg is its Error()    *)
(* text, one character per element.                                        *)

ioTimeout == <<"i","/","o"," ","t","i","m","e","o","u","t">>
ioTimeoutLength == 11

ErrorMsg(e) ==
    CASE e = "EOF"           -> <<"E","O","F">>
      [] e = "ErrShortWrite" -> <<"s","h","o","r","t"," ","w","r","i","t","e">>
      [] e = "readTimeout"   -> <<"r","e","a","d",":"," ">> \o ioTimeout
      [] e = "writeTimeout"  -> <<"w","r","i","t","e",":"," ">> \o ioTimeout
      [] e = "reset"         -> <<"c","o","n","n","e","c","t","i","o","n"," ",
                                  "r","e","s","e","t">>
      [] e = "closed"        -> <<"c","l","o","s","e","d">>
      [] e = "epipe"         -> <<"p","i","p","e">>

ReadErrs  == {"EOF", "readTimeout", "reset", "closed"}
WriteErrs == {"writeTimeout", "epipe"}

\* isTimeout, without the comparison of the suffix
isTimeoutByLength(e) == Len(ErrorMsg(e)) >= ioTimeoutLength

isTimeout(e) ==
    LET es  == ErrorMsg(e)
        esl == Len(es)
    IN  /\ esl >= ioTimeoutLength
        /\ SubSeq(es, esl - ioTimeoutLength + 1, esl) = ioTimeout

----------------------------------------------------------------------------
(* Initial state: BidiCopy has been called and has run lines 25-27.  The   *)
(* caller may have armed a read deadline of its own on either connection.  *)
(* The peer of a connection may be one that stays silent for the whole     *)
(* call: a Read of an idle connection returns only when a deadline expires.*)

\* A buffer whose content no longer matters: the next Read defines all of
\* it (line 47), and nothing reads it before that.
DeadBuf == [i \in 1..BufLen |-> Scratch]

CopyInit ==
    /\ mainPc = "go1"
    /\ outErr = "unset" /\ inErr = "unset"
    /\ stop = 0
    /\ errCh = [c \in Copiers |-> <<>>]
    /\ pc = [c \in Copiers |-> "idle"]
    /\ stopping = [c \in Copiers |-> FALSE]
    /\ buf = [c \in Copiers |-> DeadBuf]
    /\ nr = [c \in Copiers |-> 0]
    /\ er = [c \in Copiers |-> "nil"]
    /\ ew = [c \in Copiers |-> "nil"]
    /\ err = [c \in Copiers |-> "nil"]
    /\ rdl \in [Conns -> {"none", "caller"}]
    /\ wdl = [c \in Conns |-> "none"]
    /\ rd = [c \in Copiers |-> <<>>]
    /\ wr = [c \in Copiers |-> <<>>]
    /\ cause = [c \in Copiers |-> "none"]
    /\ timeouts = [c \in Copiers |-> 0]
    /\ idle \in [Conns -> BOOLEAN]
    /\ armedDst = [c \in Copiers |-> FALSE]
    /\ sent = [c \in Copiers |-> 0]
    /\ offered = [c \in Copiers |-> <<>>]

----------------------------------------------------------------------------
(* BidiCopy *)

\* line 28: go doCopy(out, in, bufIn, writeTimeout, outErrCh, &stop)
GoOut ==
    /\ mainPc = "go1"
    /\ mainPc' = "go2"
    /\ pc' = [pc EXCEPT !["outCopy"] = "load"]
    /\ UNCHANGED <<outErr, inErr, stop, errCh, stopping, buf, nr, er, ew, err,
                   rdl, wdl, rd, wr, cause, timeouts, idle,
                   armedDst, sent, offered>>

\* line 29: go doCopy(in, out, bufOut, writeTimeout, inErrCh, &stop)
GoIn ==
    /\ mainPc = "go2"
    /\ mainPc' = "recvOut"
    /\ pc' = [pc EXCEPT !["inCopy"] = "load"]
    /\ UNCHANGED <<outErr, inErr, stop, errCh, stopping, buf, nr, er, ew, err,
                   rdl, wdl, rd, wr, cause, timeouts, idle,
                   armedDst, sent, offered>>

\* RecvOut, receiving from the other channel
RecvOutSwapped ==
    /\ mainPc = "recvOut"
    /\ errCh["inCopy"] # <<>>
    /\ outErr' = Head(errCh["inCopy"])
    /\ errCh' = [errCh EXCEPT !["inCopy"] = Tail(@)]
    /\ mainPc' = "recvIn"
    /\ UNCHANGED <<inErr, stop, pc, stopping, buf, nr, er, ew, err,
                   rdl, wdl, rd, wr, cause, timeouts, idle,
                   armedDst, sent, offered>>

\* line 30, first operand: <-outErrCh
RecvOut ==
    /\ mainPc = "recvOut"
    /\ errCh["outCopy"] # <<>>
    /\ outErr' = Head(errCh["outCopy"])
    /\ errCh' = [errCh EXCEPT !["outCopy"] = Tail(@)]
    /\ mainPc' = "recvIn"
    /\ UNCHANGED <<inErr, stop, pc, stopping, buf, nr, er, ew, err,
                   rdl, wdl, rd, wr, cause, timeouts, idle,
                   armedDst, sent, offered>>

\* RecvIn, not waiting for the second result
RecvInNoWait ==
    /\ mainPc = "recvIn"
    /\ inErr' = "nil"
    /\ mainPc' = "returned"
    /\ UNCHANGED <<outErr, stop, errCh, pc, stopping, buf, nr, er, ew, err,
                   rdl, wdl, rd, wr, cause, timeouts, idle,
                   armedDst, sent, offered>>

\* RecvIn, clearing the deadlines of both connections before returning
RecvInRestores ==
    /\ mainPc = "recvIn"
    /\ errCh["inCopy"] # <<>>
    /\ inErr' = Head(errCh["inCopy"])
    /\ errCh' = [errCh EXCEPT !["inCopy"] = Tail(@)]
    /\ mainPc' = "returned"
    /\ rdl' = [k \in Conns |-> "none"]
    /\ wdl' = [k \in Conns |-> "none"]
    /\ UNCHANGED <<outErr, stop, pc, stopping, buf, nr, er, ew, err,
                   rd, wr, cause, timeouts, idle,
                   armedDst, sent, offered>>

\* line 30, second operand: <-inErrCh, and the return
RecvIn ==
    /\ mainPc = "recvIn"
    /\ errCh["inCopy"] # <<>>
    /\ inErr' = Head(errCh["inCopy"])
    /\ errCh' = [errCh EXCEPT !["inCopy"] = Tail(@)]
    /\ mainPc' = "returned"
    /\ UNCHANGED <<outErr, stop, pc, stopping, buf, nr, er, ew, err,
                   rdl, wdl, rd, wr, cause, timeouts, idle,
                   armedDst, sent, offered>>

----------------------------------------------------------------------------
(* doCopy: the loop *)

\* LoadStop, going to the Read without arming the source's deadline
LoadStopNeverArms(c) ==
    /\ pc[c] = "load"
    /\ stopping' = [stopping EXCEPT ![c] = (stop = 1)]
    /\ pc' = [pc EXCEPT ![c] = "read"]
    /\ nr' = [nr EXCEPT ![c] = 0]
    /\ er' = [er EXCEPT ![c] = "nil"]
    /\ ew' = [ew EXCEPT ![c] = "nil"]
    /\ rd' = [rd EXCEPT ![c] = <<>>]
    /\ wr' = [wr EXCEPT ![c] = <<>>]
    /\ buf' = [buf EXCEPT ![c] = DeadBuf]
    /\ offered' = [offered EXCEPT ![c] = <<>>]
    /\ UNCHANGED <<mainPc, outErr, inErr, stop, errCh, err,
                   rdl, wdl, cause, timeouts, idle,
                   armedDst, sent>>

\* line 43: stopping := atomic.LoadUint32(stop) == 1, and the test of line 44.
\* nr, er and ew are new variables in every iteration, and the iteration's
\* histories begin empty.
LoadStop(c) ==
    /\ pc[c] = "load"
    /\ stopping' = [stopping EXCEPT ![c] = (stop = 1)]
    /\ pc' = [pc EXCEPT ![c] = IF stop = 1 THEN "arm" ELSE "read"]
    /\ nr' = [nr EXCEPT ![c] = 0]
    /\ er' = [er EXCEPT ![c] = "nil"]
    /\ ew' = [ew EXCEPT ![c] = "nil"]
    /\ rd' = [rd EXCEPT ![c] = <<>>]
    /\ wr' = [wr EXCEPT ![c] = <<>>]
    /\ buf' = [buf EXCEPT ![c] = DeadBuf]
    /\ offered' = [offered EXCEPT ![c] = <<>>]
    /\ UNCHANGED <<mainPc, outErr, inErr, stop, errCh, err,
                   rdl, wdl, cause, timeouts, idle,
                   armedDst, sent>>

\* line 45: src.SetReadDeadline(time.Now().Add(copyTimeout))
ArmSrc(c) ==
    /\ pc[c] = "arm"
    /\ rdl' = [rdl EXCEPT ![Src(c)] = "drain"]
    /\ pc' = [pc EXCEPT ![c] = "read"]
    /\ UNCHANGED <<mainPc, outErr, inErr, stop, errCh, stopping, buf, nr, er,
                   ew, err, wdl, rd, wr, cause, timeouts, idle,
                   armedDst, sent, offered>>

\* Classify, not returning on a timeout seen after the flag
ClassifyKeepsLooping(c, e, cur) ==
    IF e = "EOF"
    THEN [pc |-> "dstore", err |-> cur, cause |-> "eof"]
    ELSE IF e # "nil" /\ ~isTimeout(e)
         THEN [pc |-> "dstore", err |-> e, cause |-> "readerr"]
         ELSE [pc |-> "load", err |-> cur, cause |-> "none"]

\* Classify, consulting the flag itself instead of the iteration's snapshot
ClassifyLiveFlag(c, e, cur) ==
    IF e = "EOF"
    THEN [pc |-> "dstore", err |-> cur, cause |-> "eof"]
    ELSE IF e # "nil"
         THEN IF isTimeout(e)
              THEN IF stop = 1
                   THEN [pc |-> "dstore", err |-> cur, cause |-> "timeout"]
                   ELSE [pc |-> "load", err |-> cur, cause |-> "none"]
              ELSE [pc |-> "dstore", err |-> e, cause |-> "readerr"]
         ELSE [pc |-> "load", err |-> cur, cause |-> "none"]

\* Classify, leaving the loop on every timeout
ClassifyAnyTimeout(c, e, cur) ==
    IF e = "EOF"
    THEN [pc |-> "dstore", err |-> cur, cause |-> "eof"]
    ELSE IF e # "nil"
         THEN IF isTimeout(e)
              THEN [pc |-> "dstore", err |-> cur, cause |-> "timeout"]
              ELSE [pc |-> "dstore", err |-> e, cause |-> "readerr"]
         ELSE [pc |-> "load", err |-> cur, cause |-> "none"]

\* lines 59-71: what the iteration does with the Read's error e, cur being
\* the value of err.  The result is where doCopy goes and the err it holds.
Classify(c, e, cur) ==
    IF e = "EOF"
    THEN [pc |-> "dstore", err |-> cur, cause |-> "eof"]
    ELSE IF e # "nil"
         THEN IF isTimeout(e)
              THEN IF stopping[c]
                   THEN [pc |-> "dstore", err |-> cur, cause |-> "timeout"]
                   ELSE [pc |-> "load", err |-> cur, cause |-> "none"]
              ELSE [pc |-> "dstore", err |-> e, cause |-> "readerr"]
         ELSE [pc |-> "load", err |-> cur, cause |-> "none"]

Bump(n) == IF n < MaxTimeouts THEN n + 1 ELSE n

\* HasBytes, taking the write step after every Read
HasBytesAlways(n) == TRUE

\* line 48: nr > 0
HasBytes(n) == n > 0

\* line 47: nr, er := src.Read(buf) returning (n, e) with data in buf[0:n];
\* when n = 0 line 48 is skipped and lines 59-71 follow at once.
ReadReturns(c, n, data, e) ==
    /\ pc[c] = "read"
    /\ ~(n = 0 /\ e = "nil")
    /\ idle[Src(c)] => (n = 0 /\ e = "readTimeout")
    /\ (e # "nil" /\ isTimeout(e)) => rdl[Src(c)] # "none"
    /\ buf' = [buf EXCEPT ![c] =
                 [i \in 1..BufLen |-> IF i <= n THEN data[i] ELSE Scratch]]
    /\ nr' = [nr EXCEPT ![c] = n]
    /\ er' = [er EXCEPT ![c] = e]
    /\ timeouts' = [timeouts EXCEPT ![c] =
                      IF e # "nil" /\ isTimeout(e) /\ stop = 1
                      THEN Bump(@) ELSE @]
    /\ rd' = [rd EXCEPT ![c] = @ \o data]
    /\ IF HasBytes(n)
       THEN /\ pc' = [pc EXCEPT ![c] = "setwd"]
            /\ UNCHANGED <<err, cause>>
       ELSE LET k == Classify(c, e, err[c])
            IN  /\ pc' = [pc EXCEPT ![c] = k.pc]
                /\ err' = [err EXCEPT ![c] = k.err]
                /\ cause' = [cause EXCEPT ![c] = k.cause]
    /\ UNCHANGED <<mainPc, outErr, inErr, stop, errCh, stopping, ew, rdl, wdl,
                   wr, idle, armedDst, sent, offered>>

Read(c) ==
    \E n \in 0..BufLen : \E e \in ReadErrs \cup {"nil"} :
        ReadReturns(c, n, Stream(n), e)

\* line 49: dst.SetWriteDeadline(time.Now().Add(writeTimeout))
SetWriteDeadline(c) ==
    /\ pc[c] = "setwd"
    /\ wdl' = [wdl EXCEPT ![Dst(c)] = "armed"]
    /\ pc' = [pc EXCEPT ![c] = "write"]
    /\ UNCHANGED <<mainPc, outErr, inErr, stop, errCh, stopping, buf, nr, er,
                   ew, err, rdl, rd, wr, cause, timeouts, idle,
                   armedDst, sent, offered>>

\* WriteArg, passing the whole buffer
WriteArgWholeBuf(c) == buf[c]

\* line 50: the argument of dst.Write, buf[0:nr]
WriteArg(c) == SubSeq(buf[c], 1, nr[c])

\* lines 51-53: if err != nil { err = ew }
KeepWriteErr(cur, e) == IF cur # "nil" THEN e ELSE cur

\* ShortWrite, never noticing
ShortWriteIgnored(c, n) == FALSE

\* line 54: nw != nr
ShortWrite(c, n) == n # nr[c]

\* lines 50-58, then 59-71: dst.Write(buf[0:nr]) returning (n, e)
WriteReturns(c, n, e) ==
    /\ pc[c] = "write"
    /\ n < Len(WriteArg(c)) => e # "nil"
    /\ (e # "nil" /\ isTimeout(e)) => wdl[Dst(c)] # "none"
    /\ wr' = [wr EXCEPT ![c] = @ \o SubSeq(WriteArg(c), 1, n)]
    /\ ew' = [ew EXCEPT ![c] = e]
    /\ IF ShortWrite(c, n)
       THEN /\ err' = [err EXCEPT ![c] = "ErrShortWrite"]
            /\ pc' = [pc EXCEPT ![c] = "dstore"]
            /\ cause' = [cause EXCEPT ![c] = "shortwrite"]
       ELSE LET k == Classify(c, er[c], KeepWriteErr(err[c], e))
            IN  /\ pc' = [pc EXCEPT ![c] = k.pc]
                /\ err' = [err EXCEPT ![c] = k.err]
                /\ cause' = [cause EXCEPT ![c] = k.cause]
    /\ offered' = [offered EXCEPT ![c] = Append(@, WriteArg(c))]
    /\ UNCHANGED <<mainPc, outErr, inErr, stop, errCh, stopping, buf, nr, er,
                   rdl, wdl, rd, timeouts, idle,
                   armedDst, sent>>

Write(c) ==
    \E n \in 0..Len(WriteArg(c)) : \E e \in WriteErrs \cup {"nil"} :
        WriteReturns(c, n, e)

----------------------------------------------------------------------------
(* doCopy: the deferred function *)

\* DeferStore, leaving the flag as it is
DeferStoreSkipped(c) ==
    /\ pc[c] = "dstore"
    /\ pc' = [pc EXCEPT ![c] = "darm"]
    /\ stopping' = [stopping EXCEPT ![c] = FALSE]
    /\ nr' = [nr EXCEPT ![c] = 0]
    /\ er' = [er EXCEPT ![c] = "nil"]
    /\ ew' = [ew EXCEPT ![c] = "nil"]
    /\ rd' = [rd EXCEPT ![c] = <<>>]
    /\ wr' = [wr EXCEPT ![c] = <<>>]
    /\ buf' = [buf EXCEPT ![c] = DeadBuf]
    /\ offered' = [offered EXCEPT ![c] = <<>>]
    /\ UNCHANGED <<mainPc, outErr, inErr, stop, errCh, err, rdl, wdl, cause,
                   timeouts, idle,
                   armedDst, sent>>

\* DeferStore, flipping the flag instead of storing 1
DeferStoreToggle(c) ==
    /\ pc[c] = "dstore"
    /\ stop' = 1 - stop
    /\ pc' = [pc EXCEPT ![c] = "darm"]
    /\ stopping' = [stopping EXCEPT ![c] = FALSE]
    /\ nr' = [nr EXCEPT ![c] = 0]
    /\ er' = [er EXCEPT ![c] = "nil"]
    /\ ew' = [ew EXCEPT ![c] = "nil"]
    /\ rd' = [rd EXCEPT ![c] = <<>>]
    /\ wr' = [wr EXCEPT ![c] = <<>>]
    /\ buf' = [buf EXCEPT ![c] = DeadBuf]
    /\ offered' = [offered EXCEPT ![c] = <<>>]
    /\ UNCHANGED <<mainPc, outErr, inErr, errCh, err, rdl, wdl, cause,
                   timeouts, idle,
                   armedDst, sent>>

\* DeferStore, going on to the send without arming the deadline
DeferStoreThenSend(c) ==
    /\ pc[c] = "dstore"
    /\ stop' = 1
    /\ pc' = [pc EXCEPT ![c] = "dsend"]
    /\ stopping' = [stopping EXCEPT ![c] = FALSE]
    /\ nr' = [nr EXCEPT ![c] = 0]
    /\ er' = [er EXCEPT ![c] = "nil"]
    /\ ew' = [ew EXCEPT ![c] = "nil"]
    /\ rd' = [rd EXCEPT ![c] = <<>>]
    /\ wr' = [wr EXCEPT ![c] = <<>>]
    /\ buf' = [buf EXCEPT ![c] = DeadBuf]
    /\ offered' = [offered EXCEPT ![c] = <<>>]
    /\ UNCHANGED <<mainPc, outErr, inErr, errCh, err, rdl, wdl, cause,
                   timeouts, idle,
                   armedDst, sent>>

\* line 37: atomic.StoreUint32(stop, 1).  The loop's variables (stopping,
\* nr, er, ew) are out of scope in the deferred function.
DeferStore(c) ==
    /\ pc[c] = "dstore"
    /\ stop' = 1
    /\ pc' = [pc EXCEPT ![c] = "darm"]
    /\ stopping' = [stopping EXCEPT ![c] = FALSE]
    /\ nr' = [nr EXCEPT ![c] = 0]
    /\ er' = [er EXCEPT ![c] = "nil"]
    /\ ew' = [ew EXCEPT ![c] = "nil"]
    /\ rd' = [rd EXCEPT ![c] = <<>>]
    /\ wr' = [wr EXCEPT ![c] = <<>>]
    /\ buf' = [buf EXCEPT ![c] = DeadBuf]
    /\ offered' = [offered EXCEPT ![c] = <<>>]
    /\ UNCHANGED <<mainPc, outErr, inErr, errCh, err, rdl, wdl, cause,
                   timeouts, idle,
                   armedDst, sent>>

\* DeferArm, arming nothing
DeferArmSkipped(c) ==
    /\ pc[c] = "darm"
    /\ pc' = [pc EXCEPT ![c] = "dsend"]
    /\ UNCHANGED <<mainPc, outErr, inErr, stop, errCh, stopping, buf, nr, er,
                   ew, err, rdl, wdl, rd, wr, cause, timeouts, idle,
                   armedDst, sent, offered>>

\* line 38: dst.SetReadDeadline(time.Now().Add(copyTimeout))
DeferArm(c) ==
    /\ pc[c] = "darm"
    /\ rdl' = [rdl EXCEPT ![Dst(c)] = "drain"]
    /\ pc' = [pc EXCEPT ![c] = "dsend"]
    /\ armedDst' = [armedDst EXCEPT ![c] = TRUE]
    /\ UNCHANGED <<mainPc, outErr, inErr, stop, errCh, stopping, buf, nr, er,
                   ew, err, wdl, rd, wr, cause, timeouts, idle,
                   sent, offered>>

\* lines 26-27: make(chan error, 1)
ChanCap == 1

\* DeferSend on an unbuffered channel: the send completes only while the
\* coordinator is receiving from that channel
DeferSendRendezvous(c) ==
    /\ pc[c] = "dsend"
    /\ mainPc = (IF c = "outCopy" THEN "recvOut" ELSE "recvIn")
    /\ Len(errCh[c]) < ChanCap
    /\ errCh' = [errCh EXCEPT ![c] = Append(@, err[c])]
    /\ pc' = [pc EXCEPT ![c] = "done"]
    /\ sent' = [sent EXCEPT ![c] = @ + 1]
    /\ UNCHANGED <<mainPc, outErr, inErr, stop, stopping, buf, nr, er, ew,
                   err, rdl, wdl, rd, wr, cause, timeouts, idle,
                   armedDst, offered>>

\* line 39: errCh <- err, on a channel of capacity ChanCap; the goroutine ends
DeferSend(c) ==
    /\ pc[c] = "dsend"
    /\ Len(errCh[c]) < ChanCap
    /\ errCh' = [errCh EXCEPT ![c] = Append(@, err[c])]
    /\ pc' = [pc EXCEPT ![c] = "done"]
    /\ sent' = [sent EXCEPT ![c] = @ + 1]
    /\ UNCHANGED <<mainPc, outErr, inErr, stop, stopping, buf, nr, er, ew,
                   err, rdl, wdl, rd, wr, cause, timeouts, idle,
                   armedDst, offered>>

doCopy(c) ==
    \/ LoadStop(c)
    \/ ArmSrc(c)
    \/ Read(c)
    \/ SetWriteDeadline(c)
    \/ Write(c)
    \/ DeferStore(c)
    \/ DeferArm(c)
    \/ DeferSend(c)

BidiCopy == GoOut \/ GoIn \/ RecvOut \/ RecvIn
----------------------------------------------------------------------------
(* netx.go: the registry.  A slot holds a function, named here by an       *)
(* identifier; "unset" is an atomic.Value nothing was stored in.           *)

Fns == {"f1", "f2"}

DefaultDial       == "net.Dialer.DialContext"
DefaultDialUDP    == "net.DialUDP"
DefaultResolve    == "net.ResolveTCPAddr"
DefaultResolveUDP == "net.ResolveUDPAddr"

Slots == [dial |-> dial, dialUDP |-> dialUDP,
          resolveTCPAddr |-> resolveTCPAddr, resolveUDPAddr |-> resolveUDPAddr]

Unset == [dial |-> "unset", dialUDP |-> "unset",
          resolveTCPAddr |-> "unset", resolveUDPAddr |-> "unset"]

\* line 51: dial.Store(dialFN)
StoreDial(s, fn) == [s EXCEPT !.dial = fn]
\* StoreUDPDial, storing into the TCP slot
StoreUDPDialWrongSlot(s, fn) == [s EXCEPT !.dial = fn]

\* line 55: dialUDP.Store(dialFN)
StoreUDPDial(s, fn) == [s EXCEPT !.dialUDP = fn]
\* line 65: resolveTCPAddr.Store(resolveFN)
StoreResolve(s, fn) == [s EXCEPT !.resolveTCPAddr = fn]
\* line 73: resolveUDPAddr.Store(resolveFN)
StoreUDPResolve(s, fn) == [s EXCEPT !.resolveUDPAddr = fn]
\* lines 76-82: SetDefaultUDPDial stores the wrapper of net.DialUDP
StoreDefaultUDPDial(s) == [s EXCEPT !.dialUDP = DefaultDialUDP]

\* lines 85-91: Reset, its four calls in order
ResetSlots(s) ==
    StoreUDPResolve(
        StoreResolve(
            StoreDefaultUDPDial(
                StoreDial(s, DefaultDial)),
            DefaultResolve),
        DefaultResolveUDP)

\* line 46: the function DialContext invokes
DialContextFn(s) == s.dial
\* line 38: DialTimeout calls DialContext
DialTimeoutFn(s) == DialContextFn(s)
\* line 27: Dial calls DialTimeout
DialFn(s) == DialTimeoutFn(s)
\* line 31
DialUDPFn(s) == s.dialUDP
\* line 60
ResolveFn(s) == s.resolveTCPAddr
\* line 69
ResolveUDPFn(s) == s.resolveUDPAddr

\* A call: the slots become s, and lastCall records the call, its argument,
\* the function it invoked and the slots it found.
Call(api, arg, invoked, s) ==
    /\ dial' = s.dial
    /\ dialUDP' = s.dialUDP
    /\ resolveTCPAddr' = s.resolveTCPAddr
    /\ resolveUDPAddr' = s.resolveUDPAddr
    /\ lastCall' = [api |-> api, arg |-> arg, invoked |-> invoked,
                    pre |-> Slots]

OverrideDial(fn)       == Call("OverrideDial", fn, "none", StoreDial(Slots, fn))
OverrideUDPDial(fn)    == Call("OverrideUDPDial", fn, "none",
                               StoreUDPDial(Slots, fn))
OverrideResolve(fn)    == Call("OverrideResolve", fn, "none",
                               StoreResolve(Slots, fn))
OverrideUDPResolve(fn) == Call("OverrideUDPResolve", fn, "none",
                               StoreUDPResolve(Slots, fn))
SetDefaultUDPDial      == Call("SetDefaultUDPDial", "none", "none",
                               StoreDefaultUDPDial(Slots))
Reset                  == Call("Reset", "none", "none", ResetSlots(Slots))
Dial                   == Call("Dial", "none", DialFn(Slots), Slots)
DialTimeout            == Call("DialTimeout", "none", DialTimeoutFn(Slots),
                               Slots)
DialContext            == Call("DialContext", "none", DialContextFn(Slots),
                               Slots)
DialUDP                == Call("DialUDP", "none", DialUDPFn(Slots), Slots)
Resolve                == Call("Resolve", "none", ResolveFn(Slots), Slots)
ResolveUDP             == Call("ResolveUDP", "none", ResolveUDPFn(Slots), Slots)

\* lines 21-23: func init() { Reset() }, run on slots nothing was stored in
RegInit ==
    /\ dial = ResetSlots(Unset).dial
    /\ dialUDP = ResetSlots(Unset).dialUDP
    /\ resolveTCPAddr = ResetSlots(Unset).resolveTCPAddr
    /\ resolveUDPAddr = ResetSlots(Unset).resolveUDPAddr
    /\ lastCall = [api |-> "init", arg |-> "none", invoked |-> "none",
                   pre |-> Unset]

----------------------------------------------------------------------------
(* Specifications *)

Init == CopyInit /\ RegInit

\* One call of BidiCopy.
Next ==
    \/ GoOut /\ UNCHANGED regVars
    \/ GoIn /\ UNCHANGED regVars
    \/ RecvOut /\ UNCHANGED regVars
    \/ RecvIn /\ UNCHANGED regVars
    \/ \E c \in Copiers : LoadStop(c) /\ UNCHANGED regVars
    \/ \E c \in Copiers : ArmSrc(c) /\ UNCHANGED regVars
    \/ \E c \in Copiers : Read(c) /\ UNCHANGED regVars
    \/ \E c \in Copiers : SetWriteDeadline(c) /\ UNCHANGED regVars
    \/ \E c \in Copiers : Write(c) /\ UNCHANGED regVars
    \/ \E c \in Copiers : DeferStore(c) /\ UNCHANGED regVars
    \/ \E c \in Copiers : DeferArm(c) /\ UNCHANGED regVars
    \/ \E c \in Copiers : DeferSend(c) /\ UNCHANGED regVars

Spec == Init /\ [][Next]_vars

\* The scheduler is fair to BidiCopy and to both goroutines: a statement that
\* can run does run.  A Read that has a deadline armed returns a timeout
\* unless it returns something else first; no other result of a Read is
\* promised, since the peer may stay silent.
Fairness ==
    /\ WF_vars(GoOut /\ UNCHANGED regVars)
    /\ WF_vars(GoIn /\ UNCHANGED regVars)
    /\ WF_vars(RecvOut /\ UNCHANGED regVars)
    /\ WF_vars(RecvIn /\ UNCHANGED regVars)
    /\ \A c \in Copiers :
        /\ WF_vars(LoadStop(c) /\ UNCHANGED regVars)
        /\ WF_vars(ArmSrc(c) /\ UNCHANGED regVars)
        /\ WF_vars(ReadReturns(c, 0, <<>>, "readTimeout") /\ UNCHANGED regVars)
        /\ WF_vars(SetWriteDeadline(c) /\ UNCHANGED regVars)
        /\ WF_vars(Write(c) /\ UNCHANGED regVars)
        /\ WF_vars(DeferStore(c) /\ UNCHANGED regVars)
        /\ WF_vars(DeferArm(c) /\ UNCHANGED regVars)
        /\ WF_vars(DeferSend(c) /\ UNCHANGED regVars)

LiveSpec == Spec /\ Fairness

\* Calls of the registry, in any order, BidiCopy not running.
RegNext ==
    \/ \E fn \in Fns : OverrideDial(fn) /\ UNCHANGED copyVars
    \/ \E fn \in Fns : OverrideUDPDial(fn) /\ UNCHANGED copyVars
    \/ \E fn \in Fns : OverrideResolve(fn) /\ UNCHANGED copyVars
    \/ \E fn \in Fns : OverrideUDPResolve(fn) /\ UNCHANGED copyVars
    \/ SetDefaultUDPDial /\ UNCHANGED copyVars
    \/ Reset /\ UNCHANGED copyVars
    \/ Dial /\ UNCHANGED copyVars
    \/ DialTimeout /\ UNCHANGED copyVars
    \/ DialContext /\ UNCHANGED copyVars
    \/ DialUDP /\ UNCHANGED copyVars
    \/ Resolve /\ UNCHANGED copyVars
    \/ ResolveUDP /\ UNCHANGED copyVars

RegSpec == Init /\ [][RegNext]_vars

----------------------------------------------------------------------------
(* Properties *)

DeferPcs == {"dstore", "darm", "dsend", "done"}

IsPrefix(s, t) == Len(s) <= Len(t) /\ SubSeq(t, 1, Len(s)) = s

\* The result copier c has published: on its channel, or already received.
Published(c) ==
    IF errCh[c] # <<>> THEN Head(errCh[c])
    ELSE IF c = "outCopy" THEN outErr ELSE inErr

\* C1: when BidiCopy has returned, both doCopy goroutines have sent their
\* result and ended; neither is still in its loop or its deferred function.
C1_ReturnsAfterBoth ==
    mainPc = "returned" => \A c \in Copiers : pc[c] = "done" /\ errCh[c] = <<>>

C1_Witness ==
    /\ mainPc = "returned"
    /\ cause["inCopy"] = "eof"
    /\ cause["outCopy"] = "timeout"

\* C2: what a copier has written in an iteration is a prefix of what it has
\* read in it; when the iteration ends without a short write, and when the
\* copier leaves the loop with a nil err, the two are equal (so nothing read
\* earlier is left unwritten), also for bytes that came with EOF.
C2_FaithfulCopy ==
    \A c \in Copiers :
        /\ IsPrefix(wr[c], rd[c])
        /\ pc[c] = "load" => wr[c] = rd[c]
        /\ (pc[c] = "dstore" /\ err[c] = "nil") => wr[c] = rd[c]

C2_Witness ==
    \E c \in Copiers :
        /\ pc[c] = "dstore" /\ err[c] = "nil" /\ er[c] = "EOF"
        /\ rd[c] = <<1, 2>> /\ wr[c] = <<1, 2>>

\* C6: a Write that returns a count other than nr ends the copier with
\* io.ErrShortWrite, whatever error the Read returned: the copier is in its
\* deferred function or done from then on (no further Read or Write), and
\* the result it publishes is io.ErrShortWrite.
C6_ShortWriteFatal ==
    \A c \in Copiers :
        /\ (pc[c] \notin {"setwd", "write"} /\ wr[c] # rd[c])
              => pc[c] = "dstore" /\ cause[c] = "shortwrite"
        /\ cause[c] = "shortwrite"
              => /\ pc[c] \in DeferPcs
                 /\ err[c] = "ErrShortWrite"
                 /\ pc[c] = "done" => Published(c) = "ErrShortWrite"

C6_Witness ==
    \E c \in Copiers :
        /\ pc[c] = "done" /\ cause[c] = "shortwrite"
        /\ Published(c) = "ErrShortWrite"
        /\ cause[Other(c)] = "eof"

\* C3 as claimed: once a copier is done the other one ends too, and BidiCopy
\* returns, whatever the running copier's source does.
C3_OtherAlwaysTerminates ==
    \A c \in Copiers :
        (pc[Other(c)] = "done") ~> (pc[c] = "done" /\ mainPc = "returned")

\* C3: once a copier is done the other one ends too, and BidiCopy returns,
\* in every fair behaviour in which the running copier's source at some point
\* stops delivering bytes (the copier is no longer given bytes to write): the
\* source is idle, or its Read fails or reaches EOF.
C3_TerminatesOnceSourceQuiet ==
    \A c \in Copiers :
        <>[](pc[c] \notin {"setwd", "write"})
            => ((pc[Other(c)] = "done")
                    ~> (pc[c] = "done" /\ mainPc = "returned"))

C3_Witness ==
    \E c \in Copiers :
        /\ idle[Src(c)] /\ rdl[Src(c)] = "drain"
        /\ cause[Other(c)] = "shortwrite"
        /\ pc[c] = "done" /\ cause[c] = "timeout"
        /\ mainPc = "returned"

\* C4: if one connection delivers its bytes and then EOF, with every write
\* of them accepted in full (that copier leaves its loop on EOF), and the
\* other connection is idle, BidiCopy returns and both results are nil.
C4_CleanShutdownIdlePeer ==
    \A c \in Copiers :
        (idle[Src(Other(c))] /\ <>(cause[c] = "eof"))
            => <>(mainPc = "returned" /\ outErr = "nil" /\ inErr = "nil")

C4_Witness ==
    \E c \in Copiers :
        /\ idle[Src(Other(c))]
        /\ cause[c] = "eof" /\ cause[Other(c)] = "timeout"
        /\ wdl[Dst(c)] = "armed"
        /\ mainPc = "returned" /\ outErr = "nil" /\ inErr = "nil"

\* C5 as claimed: a copier whose source is idle meets at most one read
\* timeout once the stop flag is set.
C5_ExitsOnFirstTimeout ==
    \A c \in Copiers : idle[Src(c)] => timeouts[c] <= 1

\* C5: a copier meets at most two read timeouts once the stop flag is set:
\* one in the iteration whose snapshot was taken before the flag was set,
\* and one in the next iteration, which ends it.  After the second it never
\* reads again, and with an idle source it leaves the loop at once with nil.
C5_ExitsBySecondTimeout ==
    \A c \in Copiers :
        /\ timeouts[c] <= 2
        /\ timeouts[c] = 2 => pc[c] \notin {"load", "arm", "read"}
        /\ (timeouts[c] = 2 /\ idle[Src(c)])
              => pc[c] \in DeferPcs /\ cause[c] = "timeout" /\ err[c] = "nil"
        /\ (timeouts[c] = 1 /\ idle[Src(c)] /\ pc[c] \in {"load", "arm", "read"})
              => (pc[c] = "load" /\ ~stopping[c]) \/ (pc[c] # "load" /\ stopping[c])

C5_Witness ==
    \E c \in Copiers :
        /\ idle[Src(c)] /\ timeouts[c] = 2
        /\ pc[c] = "done" /\ cause[c] = "timeout"

\* C7 as claimed: a Write that returns an error ends the copier, and the
\* copier's result is that error.
C7_WriteErrorReported ==
    \A c \in Copiers :
        (ew[c] # "nil" /\ pc[c] # "write")
            => pc[c] = "dstore" /\ err[c] = ew[c]

\* The read errors that are not io.EOF and whose text does not end in
\* "i/o timeout".
FatalReadErrs == {"reset", "closed"}

\* C8: a Read error that is neither EOF nor a timeout, with no short write
\* in the same iteration, ends the copier in that iteration with exactly
\* that error as its result, whether or not the stop flag was seen set.
C8_ReadErrorVerbatim ==
    \A c \in Copiers :
        /\ (/\ er[c] \in FatalReadErrs
            /\ pc[c] \notin {"read", "setwd", "write"}
            /\ wr[c] = rd[c])
              => pc[c] = "dstore" /\ err[c] = er[c] /\ cause[c] = "readerr"
        /\ cause[c] = "readerr"
              => /\ pc[c] \in DeferPcs
                 /\ err[c] \in FatalReadErrs
                 /\ pc[c] = "done" => Published(c) = err[c]

C8_Witness ==
    \E c \in Copiers :
        /\ pc[c] = "dstore" /\ er[c] = "reset" /\ err[c] = "reset"
        /\ stopping[c] /\ nr[c] > 0

\* C9: BidiCopy's first result is the terminal err of the copier that reads
\* in and writes out, its second that of the copier that reads out and
\* writes in, whatever the other direction's outcome.
C9_FixedPositions ==
    /\ mainPc \in {"recvIn", "returned"} => outErr = err["outCopy"]
    /\ mainPc = "returned" => inErr = err["inCopy"]

C9_Witness ==
    /\ mainPc = "returned"
    /\ outErr = "reset" /\ cause["outCopy"] = "readerr"
    /\ inErr = "ErrShortWrite" /\ cause["inCopy"] = "shortwrite"

\* C10: an override stores its argument in its own slot and leaves the other
\* three as they were; Reset sets all four slots to the defaults; no slot is
\* unset after package init; Dial, DialTimeout and DialContext invoke the
\* function the dial slot holds.
C10_Registry ==
    /\ \A f \in {dial, dialUDP, resolveTCPAddr, resolveUDPAddr} : f # "unset"
    /\ lastCall.api = "OverrideDial"
          => Slots = [lastCall.pre EXCEPT !.dial = lastCall.arg]
    /\ lastCall.api = "OverrideUDPDial"
          => Slots = [lastCall.pre EXCEPT !.dialUDP = lastCall.arg]
    /\ lastCall.api = "OverrideResolve"
          => Slots = [lastCall.pre EXCEPT !.resolveTCPAddr = lastCall.arg]
    /\ lastCall.api = "OverrideUDPResolve"
          => Slots = [lastCall.pre EXCEPT !.resolveUDPAddr = lastCall.arg]
    /\ lastCall.api \in {"Reset", "init"}
          => Slots = [dial |-> DefaultDial, dialUDP |-> DefaultDialUDP,
                      resolveTCPAddr |-> DefaultResolve,
                      resolveUDPAddr |-> DefaultResolveUDP]
    /\ lastCall.api \in {"Dial", "DialTimeout", "DialContext"}
          => lastCall.invoked = dial /\ Slots = lastCall.pre

C10_Witness ==
    /\ lastCall.api = "OverrideUDPDial" /\ lastCall.arg = "f2"
    /\ dial = "f1" /\ dialUDP = "f2"
    /\ resolveTCPAddr = DefaultResolve /\ resolveUDPAddr = "f1"

\* The iteration of copier c is over: it is back at the top of the loop or
\* has just left the loop, with the iteration's locals still in place.
IterationOver(c) == pc[c] \in {"load", "dstore"} /\ er[c] # "nil"

\* C11: an iteration whose Read timed out (and whose Write, if any, was not
\* short) ends the copier exactly when the iteration's snapshot of the stop
\* flag was set, and then with a nil result; with the snapshot unset the
\* copier is back at the top of the loop whatever the flag is by then, and a
\* timeout is never the copier's result.
C11_TimeoutBySnapshot ==
    \A c \in Copiers :
        /\ (IterationOver(c) /\ isTimeout(er[c]) /\ cause[c] # "shortwrite")
              => /\ (pc[c] = "dstore") <=> stopping[c]
                 /\ pc[c] = "dstore" => (cause[c] = "timeout" /\ err[c] = "nil")
                 /\ pc[c] = "load" => (cause[c] = "none" /\ err[c] = "nil")
        /\ cause[c] = "timeout" => err[c] = "nil"
        /\ err[c] # "readTimeout"

\* The flag was set after the snapshot and before the Read timed out: the
\* copier loops.
C11_Witness ==
    \E c \in Copiers :
        /\ pc[c] = "load" /\ er[c] = "readTimeout" /\ ~stopping[c]
        /\ stop = 1 /\ timeouts[c] = 1

\* Copier c has executed line 37.
HasStored(c) == pc[c] \in {"darm", "dsend", "done"}

\* C12: the stop flag starts at 0, is 0 or 1, is 0 as long as no copier has
\* run the store of its deferred function (so whenever both are still in
\* their loops), and no step takes it from 1 back to 0; the only step that
\* changes it is a copier's line 37, so it rises at most once.
C12_StopMonotonic ==
    /\ stop = 0
    /\ [](/\ stop \in {0, 1}
          /\ stop = 1 => \E c \in Copiers : HasStored(c)
          /\ (\A c \in Copiers : pc[c] \notin DeferPcs) => stop = 0)
    /\ [][/\ stop = 1 => stop' = 1
          /\ stop' # stop =>
                \E c \in Copiers : pc[c] = "dstore" /\ pc'[c] = "darm"]_vars

\* Both copiers have stored the flag before either published its result.
C12_Witness ==
    /\ stop = 1
    /\ pc["outCopy"] = "darm" /\ pc["inCopy"] = "darm"
    /\ cause["outCopy"] = "eof" /\ cause["inCopy"] = "eof"

\* The ways a copier leaves its loop.
Causes == {"eof", "readerr", "shortwrite", "timeout"}

\* C13: whatever made it leave the loop, a copier stores the stop flag, then
\* arms the read deadline of its destination, then sends its result: a copier
\* past the store has the flag set, a copier at or past the send has armed
\* the deadline, and a result is on a channel (or already received) only
\* when its copier has done both.
C13_StoreArmSend ==
    \A c \in Copiers :
        /\ pc[c] \in DeferPcs => cause[c] \in Causes
        /\ pc[c] = "dstore" => (~armedDst[c] /\ sent[c] = 0)
        /\ pc[c] = "darm" => (stop = 1 /\ ~armedDst[c] /\ sent[c] = 0)
        /\ pc[c] = "dsend"
              => (stop = 1 /\ armedDst[c] /\ rdl[Dst(c)] = "drain"
                    /\ sent[c] = 0)
        /\ (errCh[c] # <<>> \/ sent[c] > 0)
              => (stop = 1 /\ armedDst[c] /\ rdl[Dst(c)] = "drain")

\* A result is on its channel, sent by a copier that left on an expected
\* timeout, while the other result has been received already.
C13_Witness ==
    /\ errCh["inCopy"] = <<"nil">> /\ cause["inCopy"] = "timeout"
    /\ cause["outCopy"] = "shortwrite" /\ outErr = "ErrShortWrite"
    /\ stop = 1 /\ armedDst["inCopy"] /\ rdl["in"] = "drain"

\* C14: a copier at its send can always complete it, wherever the
\* coordinator and the other copier are; a copier has sent one value once it
\* is done and none before, so no channel ever holds more than one value and
\* both copiers have sent exactly once when BidiCopy returns.
C14_SendOnceNeverBlocks ==
    /\ \A c \in Copiers :
          /\ pc[c] = "dsend" => ENABLED (DeferSend(c) /\ UNCHANGED regVars)
          /\ sent[c] = (IF pc[c] = "done" THEN 1 ELSE 0)
          /\ Len(errCh[c]) <= sent[c]
    /\ mainPc = "returned" => \A c \in Copiers : sent[c] = 1

\* The copier received second has sent its result while the coordinator
\* still waits for the first and the other copier is still in a Read.
C14_Witness ==
    /\ pc["inCopy"] = "done" /\ sent["inCopy"] = 1
    /\ errCh["inCopy"] = <<"reset">>
    /\ mainPc = "recvOut" /\ pc["outCopy"] = "read" /\ ~stopping["outCopy"]

\* C15: a copier is at line 45 only with its snapshot set, and a copier in a
\* Read with its snapshot set has the drain deadline on its source; a step
\* of copier c changes the read deadline of c's source only when it is line
\* 45 run with the snapshot set, and that step always leaves the drain
\* deadline there.
C15_ArmSourceIffStopping ==
    /\ [](\A c \in Copiers :
             /\ pc[c] = "arm" => (stopping[c] /\ stop = 1)
             /\ (pc[c] = "read" /\ stopping[c]) => rdl[Src(c)] = "drain")
    /\ [][\A c \in Copiers :
             pc'[c] # pc[c] =>
                /\ rdl'[Src(c)] # rdl[Src(c)]
                      => (pc[c] = "arm" /\ stopping[c])
                /\ pc[c] = "arm"
                      => (rdl'[Src(c)] = "drain" /\ pc'[c] = "read")
                /\ (pc[c] = "load" /\ stop = 0)
                      => (pc'[c] = "read" /\ ~stopping'[c])
                /\ (pc[c] = "load" /\ stop = 1)
                      => (pc'[c] = "arm" /\ stopping'[c])]_vars

\* A copier reads under the drain deadline it armed itself: the copier that
\* stopped first has not reached its own arming yet.
C15_Witness ==
    \E c \in Copiers :
        /\ pc[c] = "read" /\ stopping[c] /\ rdl[Src(c)] = "drain"
        /\ pc[Other(c)] = "darm" /\ ~armedDst[Other(c)]

\* C16: a copier is at the write step only after a Read that returned bytes,
\* with nothing classified yet, and at the Write only with the destination's
\* write deadline armed; an iteration that has ended after a Read of nr > 0
\* bytes has issued one Write, of exactly the bytes read, and one after a
\* Read of 0 bytes has issued none; a step of copier c changes the write
\* deadline of c's destination only at line 49 after a Read that returned
\* bytes.
C16_WriteStep ==
    /\ [](\A c \in Copiers :
             /\ pc[c] \in {"setwd", "write"}
                   => (nr[c] > 0 /\ offered[c] = <<>> /\ cause[c] = "none"
                         /\ Len(rd[c]) = nr[c])
             /\ pc[c] = "write" => wdl[Dst(c)] = "armed"
             /\ (pc[c] \in {"load", "dstore"} /\ nr[c] > 0)
                   => (offered[c] = <<rd[c]>> /\ Len(rd[c]) = nr[c]
                         /\ wdl[Dst(c)] = "armed")
             /\ (pc[c] \in {"load", "dstore"} /\ nr[c] = 0)
                   => offered[c] = <<>>)
    /\ [][\A c \in Copiers :
             pc'[c] # pc[c] =>
                /\ wdl'[Dst(c)] # wdl[Dst(c)]
                      => (pc[c] = "setwd" /\ nr[c] > 0)
                /\ wdl'[Src(c)] = wdl[Src(c)]
                /\ (pc[c] = "read" /\ nr'[c] = 0)
                      => (pc'[c] \in {"load", "dstore"} /\ wdl' = wdl)
                /\ (pc[c] = "read" /\ nr'[c] > 0) => pc'[c] = "setwd"
                /\ pc[c] = "setwd"
                      => (pc'[c] = "write" /\ wdl'[Dst(c)] = "armed")]_vars

\* A Read returned two bytes together with end-of-stream: the bytes were
\* written, once, before the end-of-stream made the copier leave.
C16_Witness ==
    \E c \in Copiers :
        /\ pc[c] = "dstore" /\ nr[c] = 2 /\ er[c] = "EOF"
        /\ cause[c] = "eof" /\ offered[c] = <<Stream(2)>>
        /\ wr[c] = Stream(2) /\ wdl[Dst(c)] = "armed"
        /\ wdl[Src(c)] = "none"

\* What ended the copier's last iteration, read off the iteration's locals.
LeftBy(c) ==
    IF nr[c] > 0 /\ Len(wr[c]) # nr[c] THEN "shortwrite"
    ELSE IF er[c] = "EOF" THEN "eof"
    ELSE IF er[c] \in FatalReadErrs THEN "readerr"
    ELSE IF er[c] = "readTimeout" /\ stopping[c] THEN "timeout"
    ELSE "none"

\* C17: a copier that has left its loop left it on end-of-stream, a
\* non-timeout read error, a short write, or a timeout under a set snapshot,
\* and on nothing else; one that left on a timeout left after the other had
\* stored the stop flag, and the other did not leave on a timeout; so
\* whenever a copier has left its loop, and whenever BidiCopy has returned,
\* some copier met end-of-stream, a non-timeout error or a short write.
C17_TerminationCauses ==
    /\ \A c \in Copiers :
          /\ pc[c] \in DeferPcs <=> cause[c] \in Causes
          /\ pc[c] = "dstore" => cause[c] = LeftBy(c)
          /\ pc[c] = "load" => LeftBy(c) = "none"
          /\ cause[c] = "timeout"
                => (HasStored(Other(c)) /\ cause[Other(c)] # "timeout")
    /\ ((\E c \in Copiers : pc[c] \in DeferPcs) \/ mainPc = "returned")
          => \E c \in Copiers : cause[c] \in {"eof", "readerr", "shortwrite"}

\* BidiCopy has returned: one copier met end-of-stream and the other then
\* left on the expected timeout.
C17_Witness ==
    /\ mainPc = "returned"
    /\ cause["outCopy"] = "timeout" /\ cause["inCopy"] = "eof"
    /\ outErr = "nil" /\ inErr = "nil"

\* C18: when BidiCopy has returned the stop flag is set and each connection
\* carries the drain read deadline, armed at line 38 by the copier whose
\* destination it is; no step replaces a drain read deadline or an armed
\* write deadline by anything else.
C18_StateAtReturn ==
    /\ [](mainPc = "returned"
            => /\ stop = 1
               /\ \A c \in Copiers :
                     armedDst[c] /\ rdl[Dst(c)] = "drain" /\ pc[c] = "done")
    /\ [][\A k \in Conns :
             /\ rdl[k] = "drain" => rdl'[k] = "drain"
             /\ wdl[k] = "armed" => wdl'[k] = "armed"]_vars

\* BidiCopy has returned after copying in one direction only: both
\* connections carry the drain read deadline and the one written to still
\* carries its write deadline.
C18_Witness ==
    /\ mainPc = "returned" /\ stop = 1
    /\ rdl = [k \in Conns |-> "drain"]
    /\ wdl["in"] = "armed" /\ wdl["out"] = "none"
    /\ armedDst["outCopy"] /\ armedDst["inCopy"]

====
